---- MODULE Spec2Model ----
(***************************************************************************)
(* Model of the KiCad plugin Ki_Qihe (src/qihe): the mapping-file parser,  *)
(* the footprint classifier and the CSV row emitter of QiHeProcess, and    *)
(* the worker run that drives them.                                        *)
(*                                                                         *)
(* A Python str is modelled as a sequence of one-character strings, so     *)
(* that strip, split, regex search and string comparison are computed the  *)
(* way the code computes them.  A CSV file is the sequence of rows handed  *)
(* to csv.writer.writerow, each row a sequence of fields.                  *)
(***************************************************************************)
EXTENDS Integers, Sequences, FiniteSets, TLC

(***************************************************************************)
(* Bounds of the model.                                                    *)
(***************************************************************************)
MaxFootprints == 2

MaxLines == 2

\* Entries of the persistent log after which no further run is started.
MaxLogEntries == 2

(***************************************************************************)
(* Characters and strings.                                                 *)
(***************************************************************************)
\* The printable ASCII characters in code-point order, from the blank (32) on;
\* QUOTE, BACKSLASH and BACKTICK stand for the double quote (34), the
\* backslash (92) and the backtick (96).
AsciiOrder == <<
    " ", "!", "QUOTE", "#", "$", "%", "&", "'", "(", ")", "*", "+", ",", "-", ".", "/",
    "0", "1", "2", "3", "4", "5", "6", "7", "8", "9", ":", ";", "<", "=", ">", "?",
    "@", "A", "B", "C", "D", "E", "F", "G", "H", "I", "J", "K", "L", "M", "N", "O",
    "P", "Q", "R", "S", "T", "U", "V", "W", "X", "Y", "Z", "[", "BACKSLASH", "]", "^", "_",
    "BACKTICK", "a", "b", "c", "d", "e", "f", "g", "h", "i", "j", "k", "l", "m", "n", "o",
    "p", "q", "r", "s", "t", "u", "v", "w", "x", "y", "z", "{", "|", "}", "~" >>

\* The code point of each character of AsciiOrder, from position i on.
RECURSIVE CodePoints(_)
CodePoints(i) ==
    IF i = Len(AsciiOrder) THEN AsciiOrder[i] :> (31 + i)
    ELSE (AsciiOrder[i] :> (31 + i)) @@ CodePoints(i + 1)

CodePointTable == CodePoints(1)

\* Code point of a character (Python compares str by code point).
Ord(c) == CodePointTable[c]

\* Case folding of one character, as re.IGNORECASE folds ASCII letters.
Lower(c) == LET o == Ord(c) IN IF o >= 65 /\ o <= 90 THEN AsciiOrder[o + 1] ELSE c

LowerStr(s) == [i \in 1..Len(s) |-> Lower(s[i])]

\* Python's str < str: lexicographic by code point, a proper prefix is smaller.
RECURSIVE StrLess(_, _)
StrLess(a, b) ==
    IF b = <<>> THEN FALSE
    ELSE IF a = <<>> THEN TRUE
    ELSE IF Ord(a[1]) < Ord(b[1]) THEN TRUE
    ELSE IF Ord(a[1]) > Ord(b[1]) THEN FALSE
    ELSE StrLess(Tail(a), Tail(b))

RECURSIVE LStrip(_)
LStrip(s) == IF s # <<>> /\ s[1] = " " THEN LStrip(Tail(s)) ELSE s

RECURSIVE RStrip(_)
RStrip(s) == IF s # <<>> /\ s[Len(s)] = " " THEN RStrip(SubSeq(s, 1, Len(s) - 1)) ELSE s

\* str.strip()
Strip(s) == RStrip(LStrip(s))

\* Index of the first occurrence of character c in s, or 0.
IndexOf(s, c) ==
    IF \E i \in 1..Len(s) : s[i] = c
    THEN CHOOSE i \in 1..Len(s) : s[i] = c /\ \A j \in 1..(i - 1) : s[j] # c
    ELSE 0

\* str.split(sep) for a one-character separator: empty pieces are kept.
RECURSIVE Split(_, _)
Split(s, sep) ==
    LET i == IndexOf(s, sep) IN
    IF i = 0 THEN <<s>>
    ELSE <<SubSeq(s, 1, i - 1)>> \o Split(SubSeq(s, i + 1, Len(s)), sep)

\* str.split() without argument: split on runs of whitespace, no empty pieces.
RECURSIVE SplitWhitespace(_)
SplitWhitespace(s) ==
    LET t == LStrip(s) IN
    IF t = <<>> THEN <<>>
    ELSE LET i == IndexOf(t, " ")
             e == IF i = 0 THEN Len(t) ELSE i - 1
         IN <<SubSeq(t, 1, e)>> \o SplitWhitespace(SubSeq(t, e + 1, Len(t)))

\* re.search(pattern, value, re.IGNORECASE) for a pattern of literal
\* characters (letters, digits, blanks): a case-insensitive substring search.
\* The empty pattern matches every value.
re_search(pattern, value) ==
    LET p == LowerStr(pattern)
        v == LowerStr(value)
    IN \E i \in 0..(Len(v) - Len(p)) : SubSeq(v, i + 1, i + Len(p)) = p

(***************************************************************************)
(* The mapping file (QiHeProcess.load_component_mapping).                  *)
(***************************************************************************)
\* DictPut keeping the value a key already has.
DictPut_keep_first(m, k, v) ==
    [x \in (DOMAIN m) \cup {k} |-> IF x \in DOMAIN m THEN m[x] ELSE v]

\* dict[k] = v
DictPut(m, k, v) == [x \in (DOMAIN m) \cup {k} |-> IF x = k THEN v ELSE m[x]]

EmptyDict == [x \in {} |-> <<>>]

EmptyLoad == [mapping |-> EmptyDict, exclude_patterns |-> <<>>, priority_patterns |-> <<>>]

\* AddComponents keying the table by the untrimmed component.
RECURSIVE AddComponents_untrimmed(_, _, _, _)
AddComponents_untrimmed(mapping, components, prefix, param1) ==
    IF components = <<>> THEN mapping
    ELSE AddComponents_untrimmed(DictPut(mapping, Head(components), <<prefix, Strip(param1)>>),
                                 Tail(components), prefix, param1)

\* for component in param2.split(':'): mapping[component.strip()] = (prefix, param1.strip())
RECURSIVE AddComponents(_, _, _, _)
AddComponents(mapping, components, prefix, param1) ==
    IF components = <<>> THEN mapping
    ELSE AddComponents(DictPut(mapping, Strip(Head(components)), <<prefix, Strip(param1)>>),
                       Tail(components), prefix, param1)

\* ParseLine putting the patterns of a line in front of those already loaded.
ParseLine_prepend(acc, rawline) ==
    LET line == Strip(rawline) IN
    IF line = <<>> \/ line[1] = "#" THEN acc
    ELSE LET parts == Split(line, ",") IN
         IF Len(parts) >= 3
         THEN LET prefix == Strip(parts[1])
                  param1 == Strip(parts[2])
                  param2 == Strip(parts[3])
              IN IF prefix = <<"E">>
                 THEN [acc EXCEPT !.exclude_patterns = Split(param2, ":") \o @]
                 ELSE IF prefix = <<"P">>
                 THEN [acc EXCEPT !.priority_patterns = Split(param2, ":") \o @]
                 ELSE [acc EXCEPT !.mapping = AddComponents(@, Split(param2, ":"), prefix, param1)]
         ELSE acc

\* ParseLine accepting a line of two fields, its last field as the values.
ParseLine_two_fields(acc, rawline) ==
    LET line == Strip(rawline) IN
    IF line = <<>> \/ line[1] = "#" THEN acc
    ELSE LET parts == Split(line, ",") IN
         IF Len(parts) >= 2
         THEN LET prefix == Strip(parts[1])
                  param1 == Strip(parts[2])
                  param2 == Strip(parts[IF Len(parts) >= 3 THEN 3 ELSE 2])
              IN IF prefix = <<"E">>
                 THEN [acc EXCEPT !.exclude_patterns = @ \o Split(param2, ":")]
                 ELSE IF prefix = <<"P">>
                 THEN [acc EXCEPT !.priority_patterns = @ \o Split(param2, ":")]
                 ELSE [acc EXCEPT !.mapping = AddComponents(@, Split(param2, ":"), prefix, param1)]
         ELSE acc

\* The body of the loop "for line in file" applied to one line.
ParseLine(acc, rawline) ==
    LET line == Strip(rawline) IN
    IF line = <<>> \/ line[1] = "#" THEN acc
    ELSE LET parts == Split(line, ",") IN
         IF Len(parts) >= 3
         THEN LET prefix == Strip(parts[1])
                  param1 == Strip(parts[2])
                  param2 == Strip(parts[3])
              IN IF prefix = <<"E">>
                 THEN [acc EXCEPT !.exclude_patterns = @ \o Split(param2, ":")]
                 ELSE IF prefix = <<"P">>
                 THEN [acc EXCEPT !.priority_patterns = @ \o Split(param2, ":")]
                 ELSE [acc EXCEPT !.mapping = AddComponents(@, Split(param2, ":"), prefix, param1)]
         ELSE acc

RECURSIVE ParseLines(_, _)
ParseLines(acc, lines) ==
    IF lines = <<>> THEN acc ELSE ParseLines(ParseLine(acc, Head(lines)), Tail(lines))

\* The lines of the template written by create_default_mapping_file.  Every
\* line of the template starts with "#"; the title line, the three example
\* lines and the closing line stand for the whole of it.
default_content == <<
    <<"#", " ", "C", "o", "m", "p", "o", "n", "e", "n", "t", " ", "M", "a", "p", "p", "i", "n", "g", " ", "f", "o", "r", " ", "Q", "I", "H", "E", " ", "P", "n", "P", " ", "m", "a", "c", "h", "i", "n", "e">>,
    <<"#", " ", " ", " ", "E", "x", "a", "m", "p", "l", "e", ":", " ", "1", ",", " ", "L", "1", ",", " ", "0", "n", "1", ":", "1", "0", "0", "n", "F", ":", "1", "0", "0", "n", "f", ":", "0", ".", "1", "u", "F", ":", "0", ".", "1", "u", "f">>,
    <<"#", " ", " ", " ", "E", "x", "a", "m", "p", "l", "e", ":", " ", "E", ",", " ", ",", " ", "N", "C", ":", "T", "P">>,
    <<"#", " ", " ", " ", "E", "x", "a", "m", "p", "l", "e", ":", " ", "P", ",", " ", ",", " ", "F", "I", "D", "U", "C", "I", "A", "L", ":", "T", "E", "S", "T", "P", "O", "I", "N", "T">>,
    <<"#">> >>

\* A file on disk: whether it exists and the lines (or rows) it holds.
NoFile == [exists |-> FALSE, lines |-> <<>>]

FileOf(lines) == [exists |-> TRUE, lines |-> lines]

\* create_default_mapping_file: open(filename, "w") and write the template.
create_default_mapping_file == FileOf(default_content)

\* FileAfterLoad creating nothing.
FileAfterLoad_no_create(file) == file

\* The file at the mapping path once load_component_mapping has passed its
\* os.path.exists test.
FileAfterLoad(file) == IF ~file.exists THEN create_default_mapping_file ELSE file

\* The triple returned by load_component_mapping for the file at the path.
load_component_mapping(file) == ParseLines(EmptyLoad, FileAfterLoad(file).lines)

(***************************************************************************)
(* Footprints of the board (owned by pcbnew, read by the plugin).          *)
(***************************************************************************)
F_Cu == "F_Cu"

B_Cu == "B_Cu"

\* pcbnew's footprint attribute bits.
FP_THROUGH_HOLE == 1

FP_SMD == 2

FP_EXCLUDE_FROM_POS_FILES == 4

FP_EXCLUDE_FROM_BOM == 8

\* Python's & and | on non-negative ints.
RECURSIVE BitAnd(_, _)
BitAnd(a, b) ==
    IF a = 0 \/ b = 0 THEN 0
    ELSE (a % 2) * (b % 2) + 2 * BitAnd(a \div 2, b \div 2)

RECURSIVE BitOr(_, _)
BitOr(a, b) ==
    IF a = 0 THEN b
    ELSE IF b = 0 THEN a
    ELSE (IF (a % 2) + (b % 2) > 0 THEN 1 ELSE 0) + 2 * BitOr(a \div 2, b \div 2)

(***************************************************************************)
(* Classification (QiHeProcess.is_excluded, is_priority, write_qihe_file). *)
(***************************************************************************)
\* ExcludedByAttribute testing the position-file bit alone.
ExcludedByAttribute_pos_only(mod) == BitAnd(mod.attrs, FP_EXCLUDE_FROM_POS_FILES) # 0

\* mod.GetAttributes() & (FP_EXCLUDE_FROM_POS_FILES | FP_EXCLUDE_FROM_BOM)
ExcludedByAttribute(mod) ==
    BitAnd(mod.attrs, BitOr(FP_EXCLUDE_FROM_POS_FILES, FP_EXCLUDE_FROM_BOM)) # 0

is_excluded(mod, exclude_patterns) ==
    \E i \in 1..Len(exclude_patterns) : re_search(exclude_patterns[i], mod.value)

is_priority(mod, priority_patterns) ==
    \E i \in 1..Len(priority_patterns) : re_search(priority_patterns[i], mod.value)

GroupNames ==
    {"excluded_by_attribute", "excluded_by_pattern", "priority", "mapped", "unmapped"}

\* GroupOf with the mapping table consulted before the priority patterns.
GroupOf_mapping_first(mod, component_mapping, exclude_patterns, priority_patterns) ==
    IF BitAnd(mod.attrs, FP_EXCLUDE_FROM_POS_FILES + FP_EXCLUDE_FROM_BOM) # 0
    THEN "excluded_by_attribute"
    ELSE IF is_excluded(mod, exclude_patterns) THEN "excluded_by_pattern"
    ELSE IF mod.value \in DOMAIN component_mapping THEN "mapped"
    ELSE IF is_priority(mod, priority_patterns) THEN "priority"
    ELSE "unmapped"

\* The list the loop over filtered_footprints appends mod to.
GroupOf(mod, component_mapping, exclude_patterns, priority_patterns) ==
    IF ExcludedByAttribute(mod) THEN "excluded_by_attribute"
    ELSE IF is_excluded(mod, exclude_patterns) THEN "excluded_by_pattern"
    ELSE IF is_priority(mod, priority_patterns) THEN "priority"
    ELSE IF mod.value \in DOMAIN component_mapping THEN "mapped"
    ELSE "unmapped"

\* filtered_footprints = [mod for mod in footprints if mod.GetLayer() == layer]
FilterByLayer(footprints, layer) ==
    LET OnLayer(mod) == mod.layer = layer IN SelectSeq(footprints, OnLayer)

\* The five lists after the classification loop, each in board order.
Classify(filtered, component_mapping, exclude_patterns, priority_patterns) ==
    [g \in GroupNames |->
        LET InGroup(mod) ==
                GroupOf(mod, component_mapping, exclude_patterns, priority_patterns) = g
        IN SelectSeq(filtered, InGroup)]

(***************************************************************************)
(* Sorting (QiHeProcess.get_sort_key, list.sort).                          *)
(***************************************************************************)
\* mod.GetValue().split()[0] raises IndexError when the value has no token.
SortKeyRaises(mod) == SplitWhitespace(mod.value) = <<>>

get_sort_key(mod) == SplitWhitespace(mod.value)[1]

\* Insert mod into a sorted list behind every element whose key is not
\* greater than its own (list.sort is stable).
RECURSIVE InsertByKey(_, _)
InsertByKey(sorted, mod) ==
    IF sorted = <<>> THEN <<mod>>
    ELSE IF StrLess(get_sort_key(mod), get_sort_key(Head(sorted)))
    THEN <<mod>> \o sorted
    ELSE <<Head(sorted)>> \o InsertByKey(Tail(sorted), mod)

\* group.sort(key=self.get_sort_key)
RECURSIVE SortGroupFrom(_, _)
SortGroupFrom(sorted, rest) ==
    IF rest = <<>> THEN sorted
    ELSE SortGroupFrom(InsertByKey(sorted, Head(rest)), Tail(rest))

\* SortGroup leaving the group in board order.
SortGroup_board_order(group) == group

SortGroup(group) == SortGroupFrom(<<>>, group)

(***************************************************************************)
(* Number formatting.                                                      *)
(***************************************************************************)
Digit(d) == AsciiOrder[d + 17]

\* str(n) for n >= 0
RECURSIVE IntStr(_)
IntStr(n) == IF n < 10 THEN <<Digit(n)>> ELSE IntStr(n \div 10) \o <<Digit(n % 10)>>

\* f"{num/den:.2f}" for den > 0: rounded to hundredths, sign kept.
Format2f(num, den) ==
    LET neg == num < 0
        a == IF neg THEN -num ELSE num
        h == 100 * (a \div den) + (2 * 100 * (a % den) + den) \div (2 * den)
    IN (IF neg THEN <<"-">> ELSE <<>>)
       \o IntStr(h \div 100) \o <<".">> \o <<Digit((h \div 10) % 10), Digit(h % 10)>>

(***************************************************************************)
(* Rows (QiHeProcess.write_qihe_file).                                     *)
(***************************************************************************)
HeaderRow == <<
    <<"D", "e", "s", "i", "g", "n", "a", "t", "o", "r">>,
    <<"N", "o", "z", "z", "l", "e", "N", "u", "m">>,
    <<"S", "t", "a", "c", "k", "N", "u", "m">>,
    <<"M", "i", "d", " ", "X">>,
    <<"M", "i", "d", " ", "Y">>,
    <<"R", "o", "t", "a", "t", "i", "o", "n">>,
    <<"H", "e", "i", "g", "h", "t">>,
    <<"S", "p", "e", "e", "d">>,
    <<"V", "i", "s", "i", "o", "n">>,
    <<"C", "h", "e", "c", "k">>,
    <<"E", "x", "p", "l", "a", "n", "a", "t", "i", "o", "n">> >>

\* component_mapping.get(value, ("1/2", "None"))
Placeholder == << <<"1", "/", "2">>, <<"N", "o", "n", "e">> >>

\* MappingGet looking up the first token of the value.
MappingGet_first_token(component_mapping, value) ==
    LET tokens == SplitWhitespace(value)
        key == IF tokens = <<>> THEN value ELSE tokens[1]
    IN IF key \in DOMAIN component_mapping THEN component_mapping[key] ELSE Placeholder

MappingGet(component_mapping, value) ==
    IF value \in DOMAIN component_mapping THEN component_mapping[value] ELSE Placeholder

\* Rotation without the reduction modulo 360.
Rotation_no_wrap(mod) == mod.orient + 270

\* (mod.GetOrientationDegrees() + 270) % 360
Rotation(mod) == (mod.orient + 270) % 360

\* mod in priority_footprints
InList(mod, list) == \E i \in 1..Len(list) : list[i] = mod

\* One row with the explanation prefixed for every footprint.
DataRow_prio_every_row(mod, component_mapping, priority_footprints) ==
    LET ns == MappingGet(component_mapping, mod.value)
        explanation == mod.value \o <<" ">> \o mod.ref
    IN << mod.ref,
          ns[1],
          ns[2],
          Format2f(mod.x, 1000000),
          Format2f(mod.y, 1000000),
          Format2f(Rotation(mod), 1),
          <<"0", ".", "0", "0">>,
          <<"1", "0", "0">>,
          <<"N", "o", "n", "e">>,
          <<"T", "r", "u", "e">>,
          <<"P", "R", "I", "O", " ">> \o explanation >>

\* One writer.writerow([...]) of the loop over a group.  X_Offset and
\* Y_Offset are options.get(..., 0) of an options dict that never holds them.
DataRow(mod, component_mapping, priority_footprints) ==
    LET ns == MappingGet(component_mapping, mod.value)
        explanation == mod.value \o <<" ">> \o mod.ref
    IN << mod.ref,
          ns[1],
          ns[2],
          Format2f(mod.x, 1000000),
          Format2f(mod.y, 1000000),
          Format2f(Rotation(mod), 1),
          <<"0", ".", "0", "0">>,
          <<"1", "0", "0">>,
          <<"N", "o", "n", "e">>,
          <<"T", "r", "u", "e">>,
          IF InList(mod, priority_footprints) THEN <<"P", "R", "I", "O", " ">> \o explanation ELSE explanation >>

GroupRows(group, component_mapping, priority_footprints) ==
    [i \in 1..Len(group) |-> DataRow(group[i], component_mapping, priority_footprints)]

RECURSIVE ZeroPairs(_)
ZeroPairs(n) == IF n = 0 THEN <<>> ELSE << << <<"0", ".", "0", "0">> >>, <<>> >> \o ZeroPairs(n - 1)

PuzzleRepeats == 8

\* Trailer with a single closing blank row.
Trailer_one_closing_blank ==
    << <<>>, << <<"P", "u", "z", "z", "l", "e">> >> >> \o ZeroPairs(PuzzleRepeats) \o << <<>> >>

\* The rows written after the statistics are logged.
Trailer == << <<>>, << <<"P", "u", "z", "z", "l", "e">> >> >> \o ZeroPairs(PuzzleRepeats) \o << <<>>, <<>> >>

\* The loop "for group in [priority, mapped, unmapped]": the rows written,
\* and whether group.sort raised before the loop ended.
RECURSIVE EmitGroups(_, _, _, _)
EmitGroups(rows, groups, component_mapping, priority_footprints) ==
    IF groups = <<>> THEN [rows |-> rows, raised |-> FALSE]
    ELSE LET group == Head(groups) IN
         IF \E i \in 1..Len(group) : SortKeyRaises(group[i])
         THEN [rows |-> rows, raised |-> TRUE]
         ELSE EmitGroups(rows \o GroupRows(SortGroup(group), component_mapping,
                                           priority_footprints),
                         Tail(groups), component_mapping, priority_footprints)

\* write_qihe_file: the rows in the file when it is closed, the five lists
\* of the classification, and whether the except clause was taken.
write_qihe_file(footprints, layer, component_mapping, exclude_patterns, priority_patterns) ==
    LET filtered == FilterByLayer(footprints, layer)
        lists == Classify(filtered, component_mapping, exclude_patterns, priority_patterns)
        emitted == EmitGroups(<<HeaderRow>>,
                              <<lists["priority"], lists["mapped"], lists["unmapped"]>>,
                              component_mapping, lists["priority"])
    IN [rows |-> IF emitted.raised THEN emitted.rows ELSE emitted.rows \o Trailer,
        lists |-> lists,
        raised |-> emitted.raised]

(***************************************************************************)
(* Inputs: boards and mapping files.                                       *)
(***************************************************************************)
\* Footprints a board is assembled from: value, layer, attribute bits,
\* orientation in degrees and position in nanometres.
FootprintPool == {
    [value |-> <<"1", "0", "0", "n", "F">>, layer |-> F_Cu, attrs |-> FP_SMD, orient |-> 90, x |-> 12500000, y |-> -3250000],
    [value |-> <<"0", "n", "1">>, layer |-> F_Cu, attrs |-> FP_SMD, orient |-> 0, x |-> 1000000, y |-> 2000000],
    [value |-> <<"N", "C">>, layer |-> F_Cu, attrs |-> FP_SMD, orient |-> 180, x |-> 0, y |-> 0],
    [value |-> <<"F", "I", "D">>, layer |-> F_Cu, attrs |-> FP_THROUGH_HOLE, orient |-> -90, x |-> 104990000, y |-> 1004000],
    [value |-> <<"1", "0", "k", " ", "1", "%">>, layer |-> F_Cu, attrs |-> FP_SMD, orient |-> 270, x |-> 3000000, y |-> -1000],
    [value |-> <<"1", "0", "K">>, layer |-> F_Cu, attrs |-> FP_SMD, orient |-> 45, x |-> 7770000, y |-> 5000000],
    [value |-> <<"1", "0", "0", "n", "F">>, layer |-> F_Cu, attrs |-> BitOr(FP_SMD, FP_EXCLUDE_FROM_BOM), orient |-> 0, x |-> 0, y |-> 1000000],
    [value |-> <<>>, layer |-> F_Cu, attrs |-> FP_SMD, orient |-> 0, x |-> 2000000, y |-> 2000000],
    [value |-> <<"F", "I", "D">>, layer |-> B_Cu, attrs |-> FP_SMD, orient |-> -300, x |-> 5000000, y |-> 5000000],
    [value |-> <<"N", "C">>, layer |-> B_Cu, attrs |-> BitOr(FP_SMD, FP_EXCLUDE_FROM_POS_FILES), orient |-> 0, x |-> 0, y |-> 0] }

\* Reference designators are unique on a board: U1, U2, ...
RefOf(i) == <<"U">> \o IntStr(i)

Placed(kind, i) ==
    [ref |-> RefOf(i), value |-> kind.value, layer |-> kind.layer, attrs |-> kind.attrs,
     orient |-> kind.orient, x |-> kind.x, y |-> kind.y]

\* The boards of up to MaxFootprints footprints, in GetFootprints() order.
Boards ==
    UNION { { [i \in 1..n |-> Placed(kinds[i], i)] : kinds \in [1..n -> FootprintPool] }
            : n \in 0..MaxFootprints }

\* Lines a mapping file is written from.
MappingLines == {
    <<"1", ",", " ", "L", "1", ",", " ", "0", "n", "1", ":", "1", "0", "0", "n", "F">>,
    <<"E", ",", " ", ",", " ", "N", "C", ":", "T", "P">>,
    <<"P", ",", " ", ",", " ", "F", "I", "D", ":", "N", "C">>,
    <<" ", "2", " ", ",", " ", "B", "2", " ", ",", " ", "F", "I", "D", " ", ":", " ", "0", "n", "1", " ", ":", "N", "C">>,
    <<"#", " ", "E", ",", " ", ",", " ", "F", "I", "D">>,
    <<" ", " ">>,
    <<"1", ",", " ", "L", "1">>,
    <<"E", ",", " ", "0", "n", "1">>,
    <<"E", ",", ",", "1", "0", "k", ":", "f", "i", "d">>,
    <<"1", ",", " ", "L", "2", ",", " ", "1", "0", "0", "n", "F", ",", " ", "1", "0", "K", ":", "x">> }

\* The mapping files of up to MaxLines lines.
ShortMappingFiles ==
    UNION { { FileOf(lines) : lines \in [1..n -> MappingLines] } : n \in 0..MaxLines }

\* Whole mapping files: none at the path, one with the three kinds of line
\* (its last line maps a value to the pair "1/2", "None"), and one whose keys
\* are also matched by its patterns.
MappingFiles == {
    NoFile,
    FileOf(<< <<"1", ",", " ", "L", "1", ",", " ", "0", "n", "1", ":", "1", "0", "0", "n", "F">>, <<"E", ",", " ", ",", " ", "N", "C", ":", "T", "P">>, <<"P", ",", " ", ",", " ", "F", "I", "D">>,
           <<"1", "/", "2", ",", " ", "N", "o", "n", "e", ",", " ", "F", "I", "D">> >>),
    FileOf(<< <<"#", " ", "k", "e", "y", "s", " ", "a", "n", "d", " ", "p", "a", "t", "t", "e", "r", "n", "s">>, <<" ", "2", " ", ",", " ", "B", "2", " ", ",", " ", "F", "I", "D", " ", ":", " ", "0", "n", "1", " ", ":", "N", "C">>, <<"P", ",", " ", ",", " ", "F", "I", "D", ":", "N", "C">>,
              <<"E", ",", " ", ",", " ", "N", "C">>, <<"1", ",", " ", "L", "1", ",", " ", "1", "0", "0", "n", "F", ":", "1", "0", "k", " ", "1", "%">> >>) }

\* The board the short mapping files are tried on.
ReferenceBoard ==
    LET kinds == << [value |-> <<"N", "C">>, layer |-> F_Cu, attrs |-> FP_SMD, orient |-> 180, x |-> 0, y |-> 0],
                    [value |-> <<"0", "n", "1">>, layer |-> F_Cu, attrs |-> FP_SMD, orient |-> 0, x |-> 1000000, y |-> 2000000],
                    [value |-> <<"F", "I", "D">>, layer |-> B_Cu, attrs |-> FP_SMD, orient |-> 90, x |-> 5000000, y |-> 5000000],
                    [value |-> <<"1", "0", "K">>, layer |-> B_Cu, attrs |-> FP_SMD, orient |-> 45, x |-> 7770000, y |-> 5000000] >>
    IN [i \in 1..Len(kinds) |-> Placed(kinds[i], i)]

(***************************************************************************)
(* The settings store (KiQIHEMain.load_settings, apply_settings,           *)
(* save_settings, create_default_settings; functions.load_user_options).   *)
(***************************************************************************)
\* A JSON object of settings: under each key the one-element tuple of the
\* value stored, or the empty tuple when the object lacks the key.
JsonObjects ==
    [mapping_location : {<<>>, <<0>>, <<1>>},
     process_top_layer : {<<>>, <<TRUE>>, <<FALSE>>},
     process_bottom_layer : {<<>>, <<FALSE>>},
     top_layer_prefix : {<<>>, <<"T">>},
     bottom_layer_prefix : {<<>>, <<"B">>},
     log_verbosity : {<<>>, <<2>>, <<7>>},
     ComponentMapping : {<<>>, <<"map.txt">>}]

EmptyObject ==
    [mapping_location |-> <<>>, process_top_layer |-> <<>>, process_bottom_layer |-> <<>>,
     top_layer_prefix |-> <<>>, bottom_layer_prefix |-> <<>>, log_verbosity |-> <<>>,
     ComponentMapping |-> <<>>]

\* The settings file: absent, present but refused by open(), present but not
\* JSON, or a JSON object.
SettingsFiles ==
    { [kind |-> k, settings |-> EmptyObject] : k \in {"absent", "unreadable", "not_json"} }
    \cup { [kind |-> "json", settings |-> s] : s \in JsonObjects }

\* settings.get(key, default)
SettingsGet(settings, key, default) ==
    IF settings[key] = <<>> THEN default ELSE settings[key][1]

\* The controls as the constructor of KiQIHEMain leaves them: the first
\* choice of the radio box, both check boxes clear, the text controls at
\* def_top_fileext, def_bottom_fileext and def_CompopentMapping, verbosity 0.
ConstructedDialog ==
    [radioBox |-> 0, chkTop |-> FALSE, chkBottom |-> FALSE,
     txtTopPrefix |-> "TOP-COORDS", txtBottomPrefix |-> "BOTTOM-COORDS",
     verbosity |-> 0, txtMappingFileName |-> "component_mapping.txt"]

\* apply_settings: settings["mapping_location"] raises KeyError when the key
\* is missing and the except clause leaves the other controls as they are; a
\* verbosity outside the radio buttons selects none of them.
apply_settings(dialog, settings) ==
    IF settings.mapping_location = <<>>
    THEN dialog
    ELSE LET verbosity_level == SettingsGet(settings, "log_verbosity", 0) IN
         [dialog EXCEPT
            !.radioBox = settings.mapping_location[1],
            !.chkTop = SettingsGet(settings, "process_top_layer", TRUE),
            !.chkBottom = SettingsGet(settings, "process_bottom_layer", TRUE),
            !.txtTopPrefix = SettingsGet(settings, "top_layer_prefix", "TOP-COORDS"),
            !.txtBottomPrefix = SettingsGet(settings, "bottom_layer_prefix", "BOTTOM-COORDS"),
            !.verbosity = IF verbosity_level \in 0..3 THEN verbosity_level ELSE @]

\* The keys of default_settings in create_default_settings that
\* apply_settings reads.
default_settings ==
    [EmptyObject EXCEPT !.mapping_location = <<0>>, !.process_top_layer = <<TRUE>>,
                        !.process_bottom_layer = <<TRUE>>, !.log_verbosity = <<0>>]

\* The object save_settings dumps for the controls.
SavedSettings(dialog) ==
    [mapping_location |-> <<dialog.radioBox>>,
     process_top_layer |-> <<dialog.chkTop>>,
     process_bottom_layer |-> <<dialog.chkBottom>>,
     top_layer_prefix |-> <<dialog.txtTopPrefix>>,
     bottom_layer_prefix |-> <<dialog.txtBottomPrefix>>,
     log_verbosity |-> <<dialog.verbosity>>,
     ComponentMapping |-> <<dialog.txtMappingFileName>>]

\* save_settings: the file after json.dump, or the file as it was when
\* open(settings_file, "w") raises and the except clause logs it.
save_settings(file, dialog, can_write) ==
    IF can_write THEN [kind |-> "json", settings |-> SavedSettings(dialog)] ELSE file

\* load_settings: the controls once it has returned.
DialogAfterLoad(file, dialog) ==
    CASE file.kind = "json" -> apply_settings(dialog, file.settings)
      [] file.kind = "absent" -> apply_settings(dialog, default_settings)
      [] OTHER -> dialog

\* load_settings: the file once it has returned (create_default_settings
\* saves the controls when there was no file).
FileAfterLoadSettings(file, dialog, can_write) ==
    IF file.kind = "absent"
    THEN save_settings(file, apply_settings(dialog, default_settings), can_write)
    ELSE file

(***************************************************************************)
(* State.                                                                  *)
(***************************************************************************)
VARIABLES
    mapping_file,     \* the file at get_mapping_file_path()
    board,            \* pcbnew.GetBoard().GetFootprints()
    chkTop,           \* the dialog's "top layer" checkbox
    chkBottom,        \* the dialog's "bottom layer" checkbox
    pc,               \* where the worker thread is
    options,          \* self.options of the worker
    self_mapping,     \* self.component_mapping, self.exclude_patterns, self.priority_patterns
    loaded_lines,     \* the lines read by the load_component_mapping call of run
    local_mapping,    \* the triple generate_qihe_files loads into its locals
    out_top,          \* the file <board>_<top_fileext>.csv
    out_bottom,       \* the file <board>_<bottom_fileext>.csv
    lists,            \* per layer, the five lists of the last write_qihe_file
    ui_log,           \* the messages passed to log_activity since the last click
    writable,         \* which of the files the worker opens for writing can be opened
    error_log,        \* the entries log_error has appended to save_restore_error.log
    threads,          \* the QiHeProcess threads started while another one was running
    writers,          \* per layer, the threads that hold its CSV file open for writing
    settings_file,    \* the file ki-qihe-options.json in the plugin folder
    widgets,          \* the dialog's other settings controls
    dialog_pc,        \* where the dialog is between its construction and its use
    user_options      \* what the last call of load_user_options has returned

vars == <<mapping_file, board, chkTop, chkBottom, pc, options, self_mapping,
          loaded_lines, local_mapping, out_top, out_bottom, lists, ui_log,
          writable, error_log, threads, writers,
          settings_file, widgets, dialog_pc, user_options>>

\* The state of the settings store and of the controls it fills.
settingsVars == <<settings_file, widgets, dialog_pc, user_options>>

EmptyLists == [g \in GroupNames |-> <<>>]

\* Every directory the worker writes to accepts the write.
AllWritable == [mapping |-> TRUE, log |-> TRUE, csv |-> TRUE]

\* The threads the clicks of a behaviour can start.
ThreadIds == {"first", "second"}

\* A QiHeProcess that has not been constructed.
NoThread ==
    [pc |-> "idle",
     options |-> [process_top_layer |-> FALSE, process_bottom_layer |-> FALSE],
     mapping |-> EmptyLoad]

\* The settings controls other than the two check boxes.
OtherControls(dialog) ==
    [radioBox |-> dialog.radioBox, txtTopPrefix |-> dialog.txtTopPrefix,
     txtBottomPrefix |-> dialog.txtBottomPrefix, verbosity |-> dialog.verbosity,
     txtMappingFileName |-> dialog.txtMappingFileName]

\* The controls of the dialog.
Dialog ==
    [radioBox |-> widgets.radioBox, chkTop |-> chkTop, chkBottom |-> chkBottom,
     txtTopPrefix |-> widgets.txtTopPrefix, txtBottomPrefix |-> widgets.txtBottomPrefix,
     verbosity |-> widgets.verbosity, txtMappingFileName |-> widgets.txtMappingFileName]

\* A dialog whose settings have been loaded, the check boxes as the user
\* has left them.
InitDialog ==
    /\ settings_file = [kind |-> "json",
                        settings |-> SavedSettings(apply_settings(ConstructedDialog, default_settings))]
    /\ widgets = OtherControls(ConstructedDialog)
    /\ dialog_pc = "loaded"
    /\ user_options = "not called"

\* The state of the worker and of its files before the first click.
InitWorker ==
    /\ threads = [t \in ThreadIds |-> NoThread]
    /\ writers = [l \in {F_Cu, B_Cu} |-> {}]
    /\ pc = "idle"
    /\ options = [process_top_layer |-> FALSE, process_bottom_layer |-> FALSE]
    /\ self_mapping = EmptyLoad
    /\ loaded_lines = <<>>
    /\ local_mapping = EmptyLoad
    /\ out_top = NoFile
    /\ out_bottom = NoFile
    /\ lists = [l \in {F_Cu, B_Cu} |-> EmptyLists]
    /\ ui_log = <<>>
    /\ error_log = <<>>

Init ==
    /\ \/ /\ mapping_file \in MappingFiles
          /\ board \in Boards
          /\ chkTop \in BOOLEAN
          /\ chkBottom \in BOOLEAN
       \/ /\ mapping_file \in ShortMappingFiles
          /\ board = ReferenceBoard
          /\ chkTop = TRUE
          /\ chkBottom = TRUE
    /\ writable = AllWritable
    /\ InitWorker
    /\ InitDialog

(***************************************************************************)
(* Actions.                                                                *)
(***************************************************************************)
\* KiQIHEMain.onGenerateButtonClick: the options are read off the widgets
\* and a worker is started.
onGenerateButtonClick ==
    /\ pc \in {"idle", "done", "escaped"}
    /\ Len(error_log) < MaxLogEntries
    /\ options' = [process_top_layer |-> chkTop, process_bottom_layer |-> chkBottom]
    /\ pc' = "run"
    /\ ui_log' = <<"Generate button was clicked.">>
    /\ UNCHANGED <<mapping_file, board, chkTop, chkBottom, self_mapping, loaded_lines,
                   local_mapping, out_top, out_bottom, lists, writable, error_log,
                   threads, writers>>
    /\ UNCHANGED settingsVars

\* QiHeProcess.log_error: the entry appended to the persistent log and the
\* message passed to log_activity.
log_error_message == "Unhandled exception in QiHeProcess"

\* QiHeProcess.run up to its call of generate_qihe_files, or through its
\* except clause when create_default_mapping_file raises: log_error appends
\* to the persistent log and to the UI log, and when its own open() raises
\* the exception leaves run.
run ==
    /\ pc = "run"
    /\ IF ~mapping_file.exists /\ ~writable.mapping
       THEN /\ ui_log' = ui_log \o <<"Starting QiHeProcess run method", "Board loaded successfully.",
                                     "Failed to create default mapping file">>
                          \o (IF writable.log THEN <<log_error_message>> ELSE <<>>)
            /\ error_log' = IF writable.log THEN Append(error_log, log_error_message) ELSE error_log
            /\ pc' = IF writable.log THEN "done" ELSE "escaped"
            /\ UNCHANGED <<mapping_file, self_mapping, loaded_lines>>
       ELSE /\ mapping_file' = FileAfterLoad(mapping_file)
            /\ self_mapping' = load_component_mapping(mapping_file)
            /\ loaded_lines' = FileAfterLoad(mapping_file).lines
            /\ ui_log' = ui_log \o <<"Starting QiHeProcess run method", "Board loaded successfully.">>
                          \o (IF mapping_file.exists THEN <<>> ELSE <<"Default mapping file created">>)
            /\ pc' = "generate"
            /\ UNCHANGED error_log
    /\ UNCHANGED <<board, chkTop, chkBottom, options, local_mapping, out_top, out_bottom, lists,
                   writable, threads, writers>>
    /\ UNCHANGED settingsVars

\* QiHeProcess.generate_qihe_files up to its first write_qihe_file.
generate_qihe_files ==
    /\ pc = "generate"
    /\ mapping_file' = FileAfterLoad(mapping_file)
    /\ local_mapping' = load_component_mapping(mapping_file)
    /\ IF ~options.process_top_layer /\ ~options.process_bottom_layer
       THEN /\ ui_log' = ui_log \o <<"Generating QIHE files:", "No layer(s) selected.">>
            /\ pc' = "done"
       ELSE /\ ui_log' = ui_log \o <<"Generating QIHE files:">>
            /\ pc' = IF options.process_top_layer THEN "top" ELSE "bottom"
    /\ UNCHANGED <<board, chkTop, chkBottom, options, self_mapping, loaded_lines,
                   out_top, out_bottom, lists, writable, error_log, threads, writers>>
    /\ UNCHANGED settingsVars

\* The messages write_qihe_file passes to log_activity.
WriteLog(result, layer) ==
    IF result.raised
    THEN <<"Error writing to file">>
    ELSE <<IF layer = F_Cu THEN "Top layer:" ELSE "Bottom layer:", "Successfully written to file">>

\* if process_top_layer: self.write_qihe_file(output_file_top, ..., pcbnew.F_Cu, ...)
write_top ==
    /\ pc = "top"
    /\ IF writable.csv
       THEN LET result == write_qihe_file(board, F_Cu, self_mapping.mapping,
                                          self_mapping.exclude_patterns,
                                          self_mapping.priority_patterns)
            IN /\ out_top' = FileOf(result.rows)
               /\ lists' = [lists EXCEPT ![F_Cu] = result.lists]
               /\ ui_log' = ui_log \o WriteLog(result, F_Cu) \o <<"Processed top layer.">>
       ELSE /\ ui_log' = ui_log \o <<"Error writing to file", "Processed top layer.">>
            /\ UNCHANGED <<out_top, lists>>
    /\ pc' = IF options.process_bottom_layer THEN "bottom" ELSE "done"
    /\ UNCHANGED <<mapping_file, board, chkTop, chkBottom, options, self_mapping,
                   loaded_lines, local_mapping, out_bottom, writable, error_log,
                   threads, writers>>
    /\ UNCHANGED settingsVars

\* if process_bottom_layer: self.write_qihe_file(output_file_bottom, ..., pcbnew.B_Cu, ...)
write_bottom ==
    /\ pc = "bottom"
    /\ IF writable.csv
       THEN LET result == write_qihe_file(board, B_Cu, self_mapping.mapping,
                                          self_mapping.exclude_patterns,
                                          self_mapping.priority_patterns)
            IN /\ out_bottom' = FileOf(result.rows)
               /\ lists' = [lists EXCEPT ![B_Cu] = result.lists]
               /\ ui_log' = ui_log \o WriteLog(result, B_Cu) \o <<"Processed bottom layer.">>
       ELSE /\ ui_log' = ui_log \o <<"Error writing to file", "Processed bottom layer.">>
            /\ UNCHANGED <<out_bottom, lists>>
    /\ pc' = "done"
    /\ UNCHANGED <<mapping_file, board, chkTop, chkBottom, options, self_mapping,
                   loaded_lines, local_mapping, out_top, writable, error_log,
                   threads, writers>>
    /\ UNCHANGED settingsVars

Next ==
    \/ onGenerateButtonClick
    \/ run
    \/ generate_qihe_files
    \/ write_top
    \/ write_bottom

Spec == Init /\ [][Next]_vars

\* The runs of the worker on a file system that refuses some of its writes:
\* the folder of the board (the CSV files, and the mapping file when the
\* dialog places it there) or the folder of the plugin (the persistent log,
\* and the mapping file when the dialog places it there) is read-only.
FileSystems == {
    AllWritable,
    [mapping |-> FALSE, log |-> TRUE, csv |-> FALSE],
    [mapping |-> TRUE, log |-> TRUE, csv |-> FALSE],
    [mapping |-> FALSE, log |-> FALSE, csv |-> TRUE],
    [mapping |-> TRUE, log |-> FALSE, csv |-> TRUE] }

InitFaults ==
    /\ mapping_file \in MappingFiles
    /\ board \in Boards
    /\ chkTop = TRUE
    /\ chkBottom \in BOOLEAN
    /\ writable \in FileSystems
    /\ InitWorker
    /\ InitDialog

SpecFaults == InitFaults /\ [][Next]_vars

(***************************************************************************)
(* Clicks at any time: onGenerateButtonClick constructs and starts a       *)
(* QiHeProcess whether or not an earlier one is still running, and the     *)
(* threads are interleaved wherever one of them opens, reads or writes a   *)
(* file.  The file system accepts every write.                             *)
(***************************************************************************)
\* The worker state that belongs to the one-worker runs.
oneWorker == <<pc, options, self_mapping, loaded_lines, local_mapping, writable, error_log>>

\* KiQIHEMain.onGenerateButtonClick: QiHeProcess(options, log_activity).start()
StartThread(t) ==
    /\ threads[t].pc = "idle"
    /\ threads' = [threads EXCEPT ![t] =
                      [pc |-> "run",
                       options |-> [process_top_layer |-> chkTop, process_bottom_layer |-> chkBottom],
                       mapping |-> EmptyLoad]]
    /\ ui_log' = Append(ui_log, "Generate button was clicked.")
    /\ UNCHANGED <<mapping_file, board, chkTop, chkBottom, out_top, out_bottom, lists, writers>>
    /\ UNCHANGED <<oneWorker, settingsVars>>

\* QiHeProcess.run of thread t up to its call of generate_qihe_files.
ThreadRun(t) ==
    /\ threads[t].pc = "run"
    /\ mapping_file' = FileAfterLoad(mapping_file)
    /\ threads' = [threads EXCEPT ![t].pc = "generate",
                                  ![t].mapping = load_component_mapping(mapping_file)]
    /\ ui_log' = Append(ui_log, "Starting QiHeProcess run method")
    /\ UNCHANGED <<board, chkTop, chkBottom, out_top, out_bottom, lists, writers>>
    /\ UNCHANGED <<oneWorker, settingsVars>>

\* QiHeProcess.generate_qihe_files of thread t up to its first write_qihe_file.
ThreadGenerate(t) ==
    /\ threads[t].pc = "generate"
    /\ mapping_file' = FileAfterLoad(mapping_file)
    /\ LET o == threads[t].options IN
       IF ~o.process_top_layer /\ ~o.process_bottom_layer
       THEN /\ threads' = [threads EXCEPT ![t].pc = "done"]
            /\ ui_log' = Append(ui_log, "No layer(s) selected.")
       ELSE /\ threads' = [threads EXCEPT ![t].pc =
                              IF o.process_top_layer THEN "open_top" ELSE "open_bottom"]
            /\ ui_log' = Append(ui_log, "Generating QIHE files:")
    /\ UNCHANGED <<board, chkTop, chkBottom, out_top, out_bottom, lists, writers>>
    /\ UNCHANGED <<oneWorker, settingsVars>>

\* The bytes of a file after a file object opened at offset 0 has flushed
\* rows into it: the rows, then what the file held beyond them.  Rows stand
\* for bytes exactly when one content is a prefix of the other.
Overlay(file, rows) ==
    FileOf(rows \o SubSeq(file.lines, Len(rows) + 1, Len(file.lines)))

\* write_qihe_file of thread t: open(filename, 'w') truncates the file.
ThreadOpen(t) ==
    /\ threads[t].pc \in {"open_top", "open_bottom"}
    /\ LET layer == IF threads[t].pc = "open_top" THEN F_Cu ELSE B_Cu IN
       /\ IF layer = F_Cu
          THEN out_top' = FileOf(<<>>) /\ UNCHANGED out_bottom
          ELSE out_bottom' = FileOf(<<>>) /\ UNCHANGED out_top
       /\ writers' = [writers EXCEPT ![layer] = @ \cup {t}]
       /\ threads' = [threads EXCEPT ![t].pc =
                         IF layer = F_Cu THEN "write_top" ELSE "write_bottom"]
    /\ UNCHANGED <<mapping_file, board, chkTop, chkBottom, lists, ui_log>>
    /\ UNCHANGED <<oneWorker, settingsVars>>

\* write_qihe_file of thread t from the header row to the end of the with
\* block, where the buffered rows are flushed and the file is closed.
ThreadWriteAndClose(t) ==
    /\ threads[t].pc \in {"write_top", "write_bottom"}
    /\ LET layer == IF threads[t].pc = "write_top" THEN F_Cu ELSE B_Cu
           m == threads[t].mapping
           result == write_qihe_file(board, layer, m.mapping, m.exclude_patterns,
                                     m.priority_patterns)
       IN /\ IF layer = F_Cu
             THEN out_top' = Overlay(out_top, result.rows) /\ UNCHANGED out_bottom
             ELSE out_bottom' = Overlay(out_bottom, result.rows) /\ UNCHANGED out_top
          /\ lists' = [lists EXCEPT ![layer] = result.lists]
          /\ writers' = [writers EXCEPT ![layer] = @ \ {t}]
          /\ ui_log' = ui_log \o WriteLog(result, layer)
          /\ threads' = [threads EXCEPT ![t].pc =
                            IF layer = F_Cu /\ threads[t].options.process_bottom_layer
                            THEN "open_bottom" ELSE "done"]
    /\ UNCHANGED <<mapping_file, board, chkTop, chkBottom>>
    /\ UNCHANGED <<oneWorker, settingsVars>>

InitClicks ==
    /\ mapping_file \in MappingFiles
    /\ board = ReferenceBoard
    /\ chkTop \in BOOLEAN
    /\ chkBottom \in BOOLEAN
    /\ writable = AllWritable
    /\ InitWorker
    /\ InitDialog

NextClicks ==
    \E t \in ThreadIds :
        \/ StartThread(t)
        \/ ThreadRun(t)
        \/ ThreadGenerate(t)
        \/ ThreadOpen(t)
        \/ ThreadWriteAndClose(t)

SpecClicks == InitClicks /\ [][NextClicks]_vars

(***************************************************************************)
(* The runs of the worker while the mapping file is open in the editor     *)
(* started by the Edit button.                                             *)
(***************************************************************************)
\* The contents the editor saves.
EditedFiles ==
    (MappingFiles \ {NoFile}) \cup { FileOf(<<line>>) : line \in MappingLines }

\* The editor opened by onEditMappingFile on the existing mapping file saves
\* it, here between the load in run and the reload in generate_qihe_files.
EditMappingFile ==
    /\ pc = "generate"
    /\ mapping_file.exists
    /\ mapping_file' \in EditedFiles \ {mapping_file}
    /\ UNCHANGED <<board, chkTop, chkBottom, pc, options, self_mapping, loaded_lines,
                   local_mapping, out_top, out_bottom, lists, ui_log, writable, error_log,
                   threads, writers>>
    /\ UNCHANGED settingsVars

InitEdit ==
    /\ mapping_file \in MappingFiles
    /\ board = ReferenceBoard
    /\ chkTop \in BOOLEAN
    /\ chkBottom \in BOOLEAN
    /\ writable = AllWritable
    /\ InitWorker
    /\ InitDialog

NextEdit ==
    \/ onGenerateButtonClick
    \/ run
    \/ generate_qihe_files
    \/ write_top
    \/ write_bottom
    \/ EditMappingFile

SpecEdit == InitEdit /\ [][NextEdit]_vars

(***************************************************************************)
(* The runs of the worker on boards whose values differ in letter case.    *)
(***************************************************************************)
\* Footprints whose values differ only in letter case, and two whose order
\* by code point is the opposite of their order without regard to case.
CasePool == {
    [value |-> <<"1", "0", "k">>, layer |-> F_Cu, attrs |-> FP_SMD, orient |-> 0, x |-> 1000000, y |-> 2000000],
    [value |-> <<"1", "0", "K">>, layer |-> F_Cu, attrs |-> FP_SMD, orient |-> 0, x |-> 3000000, y |-> 2000000],
    [value |-> <<"a", "1">>, layer |-> F_Cu, attrs |-> FP_SMD, orient |-> 90, x |-> 0, y |-> 0],
    [value |-> <<"B", "1", " ", "x">>, layer |-> B_Cu, attrs |-> FP_SMD, orient |-> 0, x |-> 0, y |-> 0],
    [value |-> <<"B", "1">>, layer |-> F_Cu, attrs |-> FP_SMD, orient |-> 180, x |-> 5000000, y |-> 0] }

CaseBoards ==
    UNION { { [i \in 1..n |-> Placed(kinds[i], i)] : kinds \in [1..n -> CasePool] }
            : n \in 1..MaxFootprints }

InitCase ==
    /\ mapping_file \in MappingFiles
    /\ board \in CaseBoards
    /\ chkTop \in BOOLEAN
    /\ chkBottom \in BOOLEAN
    /\ writable = AllWritable
    /\ InitWorker
    /\ InitDialog

SpecCase == InitCase /\ [][Next]_vars

(***************************************************************************)
(* The dialog from its construction on: the settings are loaded, and the   *)
(* options are loaded.                                                     *)
(***************************************************************************)
\* What no action of the dialog's construction touches.
exportVars == <<mapping_file, board, pc, options, self_mapping, loaded_lines, local_mapping,
                out_top, out_bottom, lists, ui_log, writable, error_log, threads, writers>>

\* KiQIHEMain.load_settings, called at the end of __init__.
load_settings ==
    /\ dialog_pc = "constructed"
    /\ LET after == DialogAfterLoad(settings_file, Dialog) IN
       /\ chkTop' = after.chkTop
       /\ chkBottom' = after.chkBottom
       /\ widgets' = OtherControls(after)
    /\ settings_file' = FileAfterLoadSettings(settings_file, Dialog, writable.log)
    /\ dialog_pc' = "loaded"
    /\ UNCHANGED <<user_options, exportVars>>

\* functions.load_user_options: get_user_options_file_path reads the global
\* optionsFileName, which functions.py neither defines nor imports, inside
\* the try block whose except clauses name FileNotFoundError and
\* json.JSONDecodeError only: the NameError reaches the caller.
load_user_options ==
    /\ user_options = "not called"
    /\ user_options' = "NameError"
    /\ UNCHANGED <<settings_file, widgets, dialog_pc, chkTop, chkBottom, exportVars>>

InitSettings ==
    /\ mapping_file \in {NoFile}
    /\ board = ReferenceBoard
    /\ chkTop = ConstructedDialog.chkTop
    /\ chkBottom = ConstructedDialog.chkBottom
    /\ writable \in {AllWritable, [mapping |-> FALSE, log |-> FALSE, csv |-> TRUE]}
    /\ InitWorker
    /\ settings_file \in SettingsFiles
    /\ widgets = OtherControls(ConstructedDialog)
    /\ dialog_pc = "constructed"
    /\ user_options = "not called"

NextSettings ==
    \/ load_settings
    \/ load_user_options

SpecSettings == InitSettings /\ [][NextSettings]_vars

(***************************************************************************)
(* The dialog over its life: the user changes the controls, saves them,    *)
(* closes the dialog, and the plugin creates it again.                     *)
(***************************************************************************)
\* The states the user can bring the settings controls into.
UserDialogs ==
    [radioBox : {0, 1}, chkTop : BOOLEAN, chkBottom : BOOLEAN,
     txtTopPrefix : {"TOP-COORDS", "T"}, txtBottomPrefix : {"BOTTOM-COORDS"},
     verbosity : {0, 2}, txtMappingFileName : {"component_mapping.txt", "map.txt"}]

\* The user changes the settings controls bound by bindSettingsEvents;
\* onSettingChanged only relabels the save button.
onSettingChanged ==
    /\ dialog_pc = "loaded"
    /\ \E dialog \in UserDialogs \ {Dialog} :
        /\ chkTop' = dialog.chkTop
        /\ chkBottom' = dialog.chkBottom
        /\ widgets' = OtherControls(dialog)
    /\ UNCHANGED <<settings_file, dialog_pc, user_options, exportVars>>

\* KiQIHEMain.onSaveOptionsButtonClick
onSaveOptionsButtonClick ==
    /\ dialog_pc = "loaded"
    /\ settings_file' = save_settings(settings_file, Dialog, writable.log)
    /\ UNCHANGED <<widgets, chkTop, chkBottom, dialog_pc, user_options, exportVars>>

\* KiQIHEMain.onClose: the frame is destroyed.
onClose ==
    /\ dialog_pc = "loaded"
    /\ dialog_pc' = "closed"
    /\ UNCHANGED <<settings_file, widgets, chkTop, chkBottom, user_options, exportVars>>

\* Plugin.Run with no frame shown: KiQIHEMain() builds the controls and ends
\* with load_settings.
Run ==
    /\ dialog_pc = "closed"
    /\ LET after == DialogAfterLoad(settings_file, ConstructedDialog) IN
       /\ chkTop' = after.chkTop
       /\ chkBottom' = after.chkBottom
       /\ widgets' = OtherControls(after)
    /\ settings_file' = FileAfterLoadSettings(settings_file, ConstructedDialog, writable.log)
    /\ dialog_pc' = "loaded"
    /\ UNCHANGED <<user_options, exportVars>>

InitRoundTrip ==
    /\ mapping_file \in {NoFile}
    /\ board = ReferenceBoard
    /\ chkTop = ConstructedDialog.chkTop
    /\ chkBottom = ConstructedDialog.chkBottom
    /\ writable \in {AllWritable, [mapping |-> FALSE, log |-> FALSE, csv |-> TRUE]}
    /\ InitWorker
    /\ settings_file = [kind |-> "absent", settings |-> EmptyObject]
    /\ widgets = OtherControls(ConstructedDialog)
    /\ dialog_pc = "closed"
    /\ user_options = "not called"

NextRoundTrip ==
    \/ onSettingChanged
    \/ onSaveOptionsButtonClick
    \/ onClose
    \/ Run

SpecRoundTrip == InitRoundTrip /\ [][NextRoundTrip]_vars

(***************************************************************************)
(* Properties.                                                             *)
(***************************************************************************)
Layers == {F_Cu, B_Cu}

\* The worker has returned from write_qihe_file for the layer in this run.
Written(layer) ==
    IF layer = F_Cu
    THEN pc \in {"bottom", "done"} /\ options.process_top_layer
    ELSE pc = "done" /\ options.process_bottom_layer

CsvOf(layer) == IF layer = F_Cu THEN out_top ELSE out_bottom

\* The number of times mod occurs in a list.
Occurrences(mod, list) == Cardinality({i \in 1..Len(list) : list[i] = mod})

\* The exclude-from-position-files bit (4) or the exclude-from-BOM bit (8) is set.
HasExcludeFlag(mod) == (mod.attrs \div 4) % 4 # 0

MatchesAny(patterns, value) == \E i \in 1..Len(patterns) : re_search(patterns[i], value)

\* The group the precedence attribute > exclusion > priority > mapping
\* assigns to a footprint.
PrecedenceGroup(mod) ==
    CASE HasExcludeFlag(mod) -> "excluded_by_attribute"
      [] ~HasExcludeFlag(mod) /\ MatchesAny(self_mapping.exclude_patterns, mod.value)
            -> "excluded_by_pattern"
      [] ~HasExcludeFlag(mod) /\ ~MatchesAny(self_mapping.exclude_patterns, mod.value)
            /\ MatchesAny(self_mapping.priority_patterns, mod.value)
            -> "priority"
      [] ~HasExcludeFlag(mod) /\ ~MatchesAny(self_mapping.exclude_patterns, mod.value)
            /\ ~MatchesAny(self_mapping.priority_patterns, mod.value)
            /\ mod.value \in DOMAIN self_mapping.mapping
            -> "mapped"
      [] OTHER -> "unmapped"

\* C1: after write_qihe_file, every footprint on the requested layer is in
\* exactly one of the five lists, the one the precedence excluded-by-attribute,
\* excluded-by-pattern, priority, mapped, unmapped assigns to it, and a
\* footprint on the other layer is in none.
C1_ClassificationPrecedence ==
    \A layer \in Layers :
        Written(layer) =>
            \A i \in 1..Len(board) :
                LET mod == board[i] IN
                \A g \in GroupNames :
                    Occurrences(mod, lists[layer][g]) =
                        IF mod.layer = layer /\ g = PrecedenceGroup(mod) THEN 1 ELSE 0

\* A written layer holds a footprint whose value matches an exclusion and a
\* priority pattern and is a mapping key (excluded), and one whose value
\* matches a priority pattern and is a mapping key (priority).
C1_Witness ==
    \E layer \in Layers :
        /\ Written(layer)
        /\ \E i, j \in 1..Len(board) :
            /\ board[i].layer = layer /\ board[j].layer = layer
            /\ ~HasExcludeFlag(board[i]) /\ ~HasExcludeFlag(board[j])
            /\ MatchesAny(self_mapping.exclude_patterns, board[i].value)
            /\ MatchesAny(self_mapping.priority_patterns, board[i].value)
            /\ board[i].value \in DOMAIN self_mapping.mapping
            /\ InList(board[i], lists[layer]["excluded_by_pattern"])
            /\ ~MatchesAny(self_mapping.exclude_patterns, board[j].value)
            /\ MatchesAny(self_mapping.priority_patterns, board[j].value)
            /\ board[j].value \in DOMAIN self_mapping.mapping
            /\ InList(board[j], lists[layer]["priority"])

\* The data rows of a CSV file: the rows after the header that hold the
\* eleven columns.
DataRows(csv) ==
    SelectSeq(IF csv.lines = <<>> THEN <<>> ELSE Tail(csv.lines), LAMBDA row : Len(row) = 11)

\* The indices on the board of the footprints a row's designator names.
FootprintsOfRow(row) == {i \in 1..Len(board) : board[i].ref = row[1]}

\* C2: a footprint flagged exclude-from-BOM or exclude-from-position-files is
\* the designator of no row of either output CSV.
C2_AttributeExcludedNeverWritten ==
    \A layer \in Layers :
        \A k \in 1..Len(CsvOf(layer).lines) :
            LET row == CsvOf(layer).lines[k] IN
            \A i \in 1..Len(board) :
                HasExcludeFlag(board[i]) => (row = <<>> \/ row[1] # board[i].ref)

\* A CSV with a data row was written for a layer that holds a flagged
\* footprint whose value is a mapping key or matches a priority pattern.
C2_Witness ==
    \E layer \in Layers :
        /\ Written(layer)
        /\ Len(DataRows(CsvOf(layer))) >= 1
        /\ \E i \in 1..Len(board) :
            /\ board[i].layer = layer
            /\ HasExcludeFlag(board[i])
            /\ \/ board[i].value \in DOMAIN self_mapping.mapping
               \/ MatchesAny(self_mapping.priority_patterns, board[i].value)

\* The number of data rows of a CSV file whose designator is the footprint's.
RowsOf(mod, csv) ==
    Cardinality({k \in 1..Len(DataRows(csv)) : DataRows(csv)[k][1] = mod.ref})

\* C3: the CSV written for a layer holds exactly one data row for each
\* footprint on that layer that is neither attribute-excluded nor
\* pattern-excluded, and no data row for any other footprint.
C3_OneRowPerSurvivingFootprint ==
    \A layer \in Layers :
        Written(layer) =>
            \A i \in 1..Len(board) :
                RowsOf(board[i], CsvOf(layer)) =
                    IF /\ board[i].layer = layer
                       /\ ~HasExcludeFlag(board[i])
                       /\ ~MatchesAny(self_mapping.exclude_patterns, board[i].value)
                    THEN 1 ELSE 0

BlankRow == <<>>

PuzzleRow == << <<"P", "u", "z", "z", "l", "e">> >>

ZeroRow == << <<"0", ".", "0", "0">> >>

\* One blank row, the "Puzzle" row, eight times a "0.00" row and a blank row,
\* then two blank rows.
FixedTrailer ==
    << BlankRow, PuzzleRow,
       ZeroRow, BlankRow, ZeroRow, BlankRow, ZeroRow, BlankRow, ZeroRow, BlankRow,
       ZeroRow, BlankRow, ZeroRow, BlankRow, ZeroRow, BlankRow, ZeroRow, BlankRow,
       BlankRow, BlankRow >>

\* The last n rows of a CSV file.
LastRows(csv, n) == SubSeq(csv.lines, Len(csv.lines) - n + 1, Len(csv.lines))

\* C4: the CSV written for a layer ends with the fixed trailer, and every row
\* between the header and the trailer is a data row.
C4_TrailerAlwaysWritten ==
    \A layer \in Layers :
        Written(layer) =>
            LET csv == CsvOf(layer)
                n == Len(csv.lines) - Len(FixedTrailer)
            IN /\ n >= 1
               /\ LastRows(csv, Len(FixedTrailer)) = FixedTrailer
               /\ \A k \in 2..n : Len(csv.lines[k]) = 11

\* C5: when the requested layer holds no footprint, the CSV is the header row
\* followed by the fixed trailer and nothing else.
C5_EmptyLayerCsv ==
    \A layer \in Layers :
        (Written(layer) /\ \A i \in 1..Len(board) : board[i].layer # layer) =>
            /\ CsvOf(layer).exists
            /\ CsvOf(layer).lines = <<HeaderRow>> \o FixedTrailer
            /\ Len(CsvOf(layer).lines) = 21

\* A CSV was written for a layer without footprints of a board that has some.
C5_Witness ==
    \E layer \in Layers :
        /\ Written(layer)
        /\ Len(board) >= 1
        /\ \A i \in 1..Len(board) : board[i].layer # layer
        /\ CsvOf(layer).exists

\* The first whitespace-delimited token of a value that has one.
FirstToken(value) ==
    LET t == LStrip(value)
        i == IndexOf(t, " ")
    IN IF i = 0 THEN t ELSE SubSeq(t, 1, i - 1)

\* The index on the board of the footprint a data row was written for.
BoardIndex(row) == CHOOSE i \in 1..Len(board) : board[i].ref = row[1]

\* priority rows come first, then mapped rows, then unmapped rows.
GroupRank(mod) ==
    CASE PrecedenceGroup(mod) = "priority" -> 1
      [] PrecedenceGroup(mod) = "mapped" -> 2
      [] PrecedenceGroup(mod) = "unmapped" -> 3
      [] OTHER -> 0

Parsed(line) ==
    LET s == Strip(line)
        fields == Split(s, ",")
        data == s # <<>> /\ s[1] # "#" /\ Len(fields) >= 3
        values == IF data THEN Split(Strip(fields[3]), ":") ELSE <<>>
    IN [data |-> data,
        tag |-> IF data THEN Strip(fields[1]) ELSE <<>>,
        param |-> IF data THEN Strip(fields[2]) ELSE <<>>,
        values |-> values,
        keys |-> {Strip(values[k]) : k \in 1..Len(values)}]

RECURSIVE ParsedLines(_)
ParsedLines(lines) ==
    IF lines = <<>> THEN <<>> ELSE <<Parsed(Head(lines))>> \o ParsedLines(Tail(lines))

\* A data line whose tag is neither E nor P.
IsMappingLine(p) == p.data /\ p.tag \notin {<<"E">>, <<"P">>}

\* The lines without the i-th.
RemoveAt(lines, i) == SubSeq(lines, 1, i - 1) \o SubSeq(lines, i + 1, Len(lines))

\* The worker has just returned from the load_component_mapping call of run:
\* self_mapping is the triple returned for the lines read.
Loaded == pc = "generate"

\* A mapping line leaves both pattern lists as they are without it.
MappingLineAddsNoPattern(i) ==
    LET without == load_component_mapping(FileOf(RemoveAt(loaded_lines, i))) IN
    /\ without.exclude_patterns = self_mapping.exclude_patterns
    /\ without.priority_patterns = self_mapping.priority_patterns

\* C7 as stated: every trimmed value of every mapping line is a key of the
\* returned table mapped to the (tag, param) of that line, and the line adds
\* nothing to either pattern list.
C7_EveryValueMapsToItsLine ==
    Loaded =>
        LET parsed == ParsedLines(loaded_lines) IN
        \A i \in 1..Len(parsed) :
            IsMappingLine(parsed[i]) =>
                /\ \A v \in parsed[i].keys :
                    /\ v \in DOMAIN self_mapping.mapping
                    /\ self_mapping.mapping[v] = <<parsed[i].tag, parsed[i].param>>
                /\ MappingLineAddsNoPattern(i)

\* The value occurs on a mapping line after the i-th.
RedefinedLater(parsed, v, i) ==
    \E j \in (i + 1)..Len(parsed) : IsMappingLine(parsed[j]) /\ v \in parsed[j].keys

\* C7 amended: every trimmed value of every mapping line is a key of the
\* returned table, mapped to the (tag, param) of that line unless the value
\* occurs again on a later mapping line, and the line adds nothing to either
\* pattern list.
C7_EveryValueMapsToItsLineUnlessRedefined ==
    Loaded =>
        LET parsed == ParsedLines(loaded_lines) IN
        \A i \in 1..Len(parsed) :
            IsMappingLine(parsed[i]) =>
                /\ \A v \in parsed[i].keys :
                    /\ v \in DOMAIN self_mapping.mapping
                    /\ ~RedefinedLater(parsed, v, i) =>
                        self_mapping.mapping[v] = <<parsed[i].tag, parsed[i].param>>
                /\ MappingLineAddsNoPattern(i)

\* The line "1, L1, 0n1:100nF" was loaded together with a line of patterns,
\* and 0n1 and 100nF are mapped to ("1", "L1").
C7_Witness ==
    /\ Loaded
    /\ \E i \in 1..Len(loaded_lines) :
        /\ loaded_lines[i] = <<"1", ",", " ", "L", "1", ",", " ", "0", "n", "1", ":",
                               "1", "0", "0", "n", "F">>
        /\ IsMappingLine(Parsed(loaded_lines[i]))
        /\ DOMAIN self_mapping.mapping = {<<"0", "n", "1">>, <<"1", "0", "0", "n", "F">>}
        /\ \A v \in DOMAIN self_mapping.mapping :
            self_mapping.mapping[v] = << <<"1">>, <<"L", "1">> >>
    /\ Len(self_mapping.exclude_patterns) + Len(self_mapping.priority_patterns) >= 1

\* The values of the data lines with the given tag, in file order.
RECURSIVE PatternsOf(_, _)
PatternsOf(parsed, tag) ==
    IF parsed = <<>> THEN <<>>
    ELSE (IF Head(parsed).data /\ Head(parsed).tag = tag THEN Head(parsed).values ELSE <<>>)
         \o PatternsOf(Tail(parsed), tag)

\* C8: the exclusion patterns are the values of the E lines and the priority
\* patterns the values of the P lines, in file order; every key of the
\* mapping table comes from a line that is neither; and a footprint whose
\* value matches an exclusion pattern is in the excluded-by-pattern list and
\* in no row, whatever the priority patterns and the mapping table say.
C8_PatternLinesInFileOrder ==
    /\ Loaded =>
        LET parsed == ParsedLines(loaded_lines) IN
        /\ self_mapping.exclude_patterns = PatternsOf(parsed, <<"E">>)
        /\ self_mapping.priority_patterns = PatternsOf(parsed, <<"P">>)
        /\ \A key \in DOMAIN self_mapping.mapping :
            \E i \in 1..Len(parsed) : IsMappingLine(parsed[i]) /\ key \in parsed[i].keys
    /\ \A layer \in Layers :
        Written(layer) =>
            LET patterns == PatternsOf(ParsedLines(loaded_lines), <<"E">>) IN
            \A i \in 1..Len(board) :
                (/\ board[i].layer = layer
                 /\ ~HasExcludeFlag(board[i])
                 /\ MatchesAny(patterns, board[i].value)) =>
                    /\ InList(board[i], lists[layer]["excluded_by_pattern"])
                    /\ ~InList(board[i], lists[layer]["priority"])
                    /\ ~InList(board[i], lists[layer]["mapped"])
                    /\ RowsOf(board[i], CsvOf(layer)) = 0

\* Two E lines were loaded, the first of them "E, , NC:TP", the exclusion
\* patterns start with "NC", "TP" and go on with the second line's, and a
\* footprint of value "NC" on a written layer is excluded by pattern.
C8_Witness ==
    /\ Len(loaded_lines) = 2
    /\ loaded_lines[1] = <<"E", ",", " ", ",", " ", "N", "C", ":", "T", "P">>
    /\ Parsed(loaded_lines[2]).data /\ Parsed(loaded_lines[2]).tag = <<"E">>
    /\ loaded_lines[2] # loaded_lines[1]
    /\ Len(self_mapping.exclude_patterns) > 2
    /\ SubSeq(self_mapping.exclude_patterns, 1, 2) = << <<"N", "C">>, <<"T", "P">> >>
    /\ \E layer \in Layers :
        /\ Written(layer)
        /\ \E i \in 1..Len(board) :
            /\ board[i].layer = layer
            /\ board[i].value = <<"N", "C">>
            /\ InList(board[i], lists[layer]["excluded_by_pattern"])

\* The mapping lines on which the key occurs as a value.
LinesDefining(parsed, key) ==
    {i \in 1..Len(parsed) : IsMappingLine(parsed[i]) /\ key \in parsed[i].keys}

\* The greatest element of a non-empty set of line numbers.
Last(S) == CHOOSE i \in S : \A j \in S : j <= i

\* C9: the returned table has a key for every component name of every
\* mapping line and maps each to the (tag, param) of the last mapping line
\* on which the name occurs.
C9_LastDefinitionWins ==
    Loaded =>
        LET parsed == ParsedLines(loaded_lines) IN
        /\ \A i \in 1..Len(parsed) :
            IsMappingLine(parsed[i]) => parsed[i].keys \subseteq DOMAIN self_mapping.mapping
        /\ \A key \in DOMAIN self_mapping.mapping :
            LET defining == LinesDefining(parsed, key) IN
            /\ defining # {}
            /\ self_mapping.mapping[key] =
                <<parsed[Last(defining)].tag, parsed[Last(defining)].param>>

\* A name occurs on two mapping lines with different (tag, param) and the
\* table holds the pair of the later line.
C9_Witness ==
    /\ Loaded
    /\ \E key \in DOMAIN self_mapping.mapping :
        LET parsed == ParsedLines(loaded_lines)
            defining == LinesDefining(parsed, key)
        IN /\ Cardinality(defining) >= 2
           /\ \E i \in defining :
                <<parsed[i].tag, parsed[i].param>> # self_mapping.mapping[key]
           /\ self_mapping.mapping[key] =
                <<parsed[Last(defining)].tag, parsed[Last(defining)].param>>

\* A line that is blank, starts with "#", or has fewer than three
\* comma-separated fields.
IsSkippedLine(line) ==
    \/ Strip(line) = <<>>
    \/ line[1] = "#"
    \/ Len(Split(line, ",")) < 3

\* C10: the result of load_component_mapping equals its result for the same
\* file with a blank, comment or short line removed.
C10_SkippedLinesContributeNothing ==
    Loaded =>
        \A i \in 1..Len(loaded_lines) :
            IsSkippedLine(loaded_lines[i]) =>
                load_component_mapping(FileOf(RemoveAt(loaded_lines, i))) = self_mapping

\* A file with a line of fewer than three fields and a line that loads
\* something was loaded.
C10_Witness ==
    /\ Loaded
    /\ self_mapping # EmptyLoad
    /\ \E i \in 1..Len(loaded_lines) :
        /\ Strip(loaded_lines[i]) # <<>>
        /\ loaded_lines[i][1] # "#"
        /\ Len(Split(loaded_lines[i], ",")) = 2

\* The nozzle and stack columns of a data row.
NozzleStack(row) == <<row[2], row[3]>>

\* The footprint's full value is a key of the table loaded by run.
IsKey(mod) == mod.value \in DOMAIN self_mapping.mapping

\* Every data row has the table's pair when the footprint's value is a key and
\* the placeholder otherwise, and an unmapped footprint's row has the
\* placeholder.
RowsFollowTable ==
    \A layer \in Layers :
        Written(layer) =>
            \A k \in 1..Len(DataRows(CsvOf(layer))) :
                LET row == DataRows(CsvOf(layer))[k]
                    mod == board[BoardIndex(row)]
                IN /\ IsKey(mod) => NozzleStack(row) = self_mapping.mapping[mod.value]
                   /\ ~IsKey(mod) => NozzleStack(row) = Placeholder
                   /\ PrecedenceGroup(mod) = "unmapped" => NozzleStack(row) = Placeholder

\* C11 as stated: every data row's nozzle and stack columns are the mapping
\* table's pair for the footprint's full value when it is a key and the
\* placeholder ("1/2", "None") otherwise; an unmapped footprint's row has the
\* placeholder, and a priority footprint's row has the placeholder exactly
\* when its value is not a mapping key.
C11_PriorityPlaceholderExactlyWhenNotKey ==
    /\ RowsFollowTable
    /\ \A layer \in Layers :
        Written(layer) =>
            \A k \in 1..Len(DataRows(CsvOf(layer))) :
                LET row == DataRows(CsvOf(layer))[k]
                    mod == board[BoardIndex(row)]
                IN PrecedenceGroup(mod) = "priority" =>
                     (NozzleStack(row) = Placeholder <=> ~IsKey(mod))

\* C11 amended: every data row's nozzle and stack columns are the mapping
\* table's pair for the footprint's full value when it is a key and the
\* placeholder ("1/2", "None") otherwise; an unmapped footprint's row has the
\* placeholder, and a priority footprint's row has the placeholder whenever
\* its value is not a mapping key and the key's pair, which a mapping line may
\* itself set to ("1/2", "None"), when it is.
C11_NozzleStackFromTableOrPlaceholder ==
    /\ RowsFollowTable
    /\ \A layer \in Layers :
        Written(layer) =>
            \A k \in 1..Len(DataRows(CsvOf(layer))) :
                LET row == DataRows(CsvOf(layer))[k]
                    mod == board[BoardIndex(row)]
                IN PrecedenceGroup(mod) = "priority" =>
                     NozzleStack(row) =
                        IF IsKey(mod) THEN self_mapping.mapping[mod.value] ELSE Placeholder

\* A written CSV holds the row of a priority footprint whose value is a key
\* with a pair other than the placeholder, and the row of an unmapped
\* footprint or of one whose value of two tokens is a key.
C11_Witness ==
    \E layer \in Layers :
        /\ Written(layer)
        /\ \E k, m \in 1..Len(DataRows(CsvOf(layer))) :
            LET rows == DataRows(CsvOf(layer))
                a == board[BoardIndex(rows[k])]
                b == board[BoardIndex(rows[m])]
            IN /\ PrecedenceGroup(a) = "priority" /\ IsKey(a)
               /\ NozzleStack(rows[k]) # Placeholder
               /\ \/ PrecedenceGroup(b) = "unmapped"
                  \/ IsKey(b) /\ Len(SplitWhitespace(b.value)) = 2

\* The number a decimal digit stands for.
DigitValue(c) == CHOOSE n \in 0..9 : Digit(n) = c

\* The number a string of decimal digits stands for.
RECURSIVE DigitsValue(_)
DigitsValue(s) ==
    IF s = <<>> THEN 0 ELSE 10 * DigitsValue(SubSeq(s, 1, Len(s) - 1)) + DigitValue(s[Len(s)])

\* The hundredths a column of the form [-]d...d.dd stands for.
Hundredths(s) ==
    LET neg == s[1] = "-"
        t == IF neg THEN Tail(s) ELSE s
        dot == IndexOf(t, ".")
        h == 100 * DigitsValue(SubSeq(t, 1, dot - 1)) + DigitsValue(SubSeq(t, dot + 1, Len(t)))
    IN IF neg THEN -h ELSE h

\* C12: the rotation column of every data row is (orientation + 270) mod 360
\* of the row's footprint written with two decimals, a value of at least 0
\* and less than 360 also for a negative orientation, and it reads 0.00 for
\* an orientation of 90 degrees.
C12_RotationColumn ==
    \A layer \in Layers :
        Written(layer) =>
            \A k \in 1..Len(DataRows(CsvOf(layer))) :
                LET row == DataRows(CsvOf(layer))[k]
                    mod == board[BoardIndex(row)]
                    h == Hundredths(row[6])
                IN /\ h >= 0 /\ h < 36000
                   /\ \E q \in -2..2 : h = 100 * (mod.orient + 270 - 360 * q)
                   /\ mod.orient = 90 => row[6] = <<"0", ".", "0", "0">>

\* The written CSVs hold the row of a footprint at 90 degrees and the row of
\* a footprint whose orientation plus 270 is negative.
C12_Witness ==
    \E la, lb \in Layers :
        /\ Written(la) /\ Written(lb)
        /\ \E k \in 1..Len(DataRows(CsvOf(la))) :
            board[BoardIndex(DataRows(CsvOf(la))[k])].orient = 90
        /\ \E k \in 1..Len(DataRows(CsvOf(lb))) :
            board[BoardIndex(DataRows(CsvOf(lb))[k])].orient + 270 < 0

\* load_component_mapping found no file at the path in this run and logged the
\* creation of the template.
TemplateCreatedInRun == \E i \in 1..Len(ui_log) : ui_log[i] = "Default mapping file created"

\* What parsing the template yields.
TemplateLoad == ParseLines(EmptyLoad, default_content)

\* C13: when run loads the mapping file and none exists at the path, that one
\* step creates the template there and parses it before any footprint is
\* classified or any CSV is touched, and the classification that follows uses
\* the result of parsing the template.
C13_TemplateCreatedBeforeClassification ==
    /\ [][(pc = "run" /\ ~mapping_file.exists) =>
            /\ mapping_file' = FileOf(default_content)
            /\ self_mapping' = TemplateLoad
            /\ pc' = "generate"
            /\ UNCHANGED <<lists, out_top, out_bottom>>]_vars
    /\ [](\A layer \in Layers :
            (TemplateCreatedInRun /\ Written(layer)) =>
                /\ mapping_file.exists
                /\ lists[layer] = Classify(FilterByLayer(board, layer), TemplateLoad.mapping,
                                           TemplateLoad.exclude_patterns,
                                           TemplateLoad.priority_patterns))

\* A layer was written in a run that created the template, for a board with
\* a footprint on that layer whose value an example line of the template
\* names.
C13_Witness ==
    \E layer \in Layers :
        /\ TemplateCreatedInRun
        /\ Written(layer)
        /\ \E i \in 1..Len(board) :
            /\ board[i].layer = layer
            /\ board[i].value = <<"0", "n", "1">>
            /\ InList(board[i], lists[layer]["unmapped"])

\* The messages log_activity receives where an exception is raised:
\* write_qihe_file's except clause, and create_default_mapping_file's before
\* it raises again.
RaiseMessages == {"Error writing to file", "Failed to create default mapping file"}

CountIn(log, messages) == Cardinality({i \in 1..Len(log) : log[i] \in messages})

\* A step of the worker in which an exception was raised.
ExceptionRaisedInStep ==
    /\ pc \in {"run", "top", "bottom"}
    /\ CountIn(ui_log', RaiseMessages) > CountIn(ui_log, RaiseMessages)

\* C14: no exception raised in a step of an export run leaves QiHeProcess.run,
\* and every step that raises one appends an entry to the persistent log and
\* passes the "Unhandled exception" message to the UI log.
C14_ExceptionsCaughtAndLogged ==
    [][/\ pc' # "escaped"
       /\ ExceptionRaisedInStep =>
            /\ error_log' = Append(error_log, log_error_message)
            /\ \E i \in 1..Len(ui_log') : ui_log'[i] = log_error_message]_vars

\* An exception raised by create_default_mapping_file was caught by run and
\* logged to the persistent log and to the UI log.
CaughtAtTopOfRun ==
    /\ pc = "done"
    /\ error_log # <<>>
    /\ ui_log[Len(ui_log)] = log_error_message

\* The messages with which write_qihe_file reports that it has opened and
\* written, or failed to write, a CSV file.
WriteMessages == {"Top layer:", "Bottom layer:", "Successfully written to file",
                  "Error writing to file"}

\* The worker has returned from run (or an exception has left run).
Returned == pc \in {"done", "escaped"}

\* How far the worker is in run.
Progress(at) ==
    CASE at = "run" -> 1
      [] at = "generate" -> 2
      [] at = "top" -> 3
      [] at = "bottom" -> 4
      [] OTHER -> 5

\* Every step of a worker brings it nearer to its return, and the guard of
\* each worker action is its place in run alone: a started run returns.
RunAdvances ==
    [][pc \notin {"idle", "done", "escaped"} => Progress(pc') > Progress(pc)]_vars

\* The CSV of a selected layer is complete: it ends with the trailer.
Complete(layer) ==
    /\ CsvOf(layer).exists
    /\ Len(CsvOf(layer).lines) >= Len(Trailer)
    /\ LastRows(CsvOf(layer), Len(Trailer)) = Trailer

\* C15: a run ends in one of two ways: without an exception and with the CSV
\* of every selected layer complete, or stopped at its first exception, no
\* file being written after it (a failure while writing the top-layer CSV
\* leaves the bottom-layer CSV unwritten).
C15_CompletesOrStopsAtFirstException ==
    /\ \A i \in 1..Len(ui_log) :
        ui_log[i] \in RaiseMessages =>
            /\ pc \notin {"top", "bottom"}
            /\ \A j \in (i + 1)..Len(ui_log) : ui_log[j] \notin WriteMessages
    /\ (pc = "done" /\ CountIn(ui_log, RaiseMessages) = 0) =>
            \A layer \in Layers : Written(layer) => Complete(layer)

\* The threads that have been started and have not returned from run.
Running == {t \in ThreadIds : threads[t].pc \notin {"idle", "done"}}

\* C16: whatever the clicks, at most one export worker is running at any
\* moment, and no output CSV file is open for writing by two workers at once.
C16_SingleWorkerSingleWriter ==
    /\ Cardinality(Running) <= 1
    /\ \A layer \in Layers : Cardinality(writers[layer]) <= 1

\* Two threads hold the same CSV file open for writing.
TwoWriters == \E layer \in Layers : Cardinality(writers[layer]) = 2

\* log_activity has received the message in this run.
Logged(message) == \E i \in 1..Len(ui_log) : ui_log[i] = message

\* A CSV is opened only by the write of its layer and only when the layer is
\* selected, the bottom-layer write starts after the top-layer write has
\* returned, and a run with no layer selected ends without opening a file.
LayersSelectedAndSequential ==
    /\ [](pc = "top" => options.process_top_layer)
    /\ [](pc = "bottom" =>
            /\ options.process_bottom_layer
            /\ options.process_top_layer => Logged("Processed top layer."))
    /\ [][/\ pc # "top" => out_top' = out_top
          /\ pc # "bottom" => out_bottom' = out_bottom
          /\ (pc = "generate" /\ ~options.process_top_layer /\ ~options.process_bottom_layer)
                => pc' = "done"]_vars

\* C17: within one run a CSV is written for a layer only if the layer is
\* selected; with both selected the top-layer CSV is completely written and
\* closed when the bottom-layer CSV is opened; with neither selected no CSV
\* file is created or modified.
C17_SelectedLayersWrittenInTurn ==
    /\ LayersSelectedAndSequential
    /\ []((pc = "bottom" /\ options.process_top_layer) => Complete(F_Cu))

\* The controls that show a settings object merged over the defaults: the
\* stored value under each key apply_settings reads, the default where the
\* key is missing (a stored verbosity that names no radio button counts as
\* missing), the mapping file name as the constructor set it.
MergedOverDefaults(settings) ==
    LET stored_verbosity == SettingsGet(settings, "log_verbosity", 0) IN
    [radioBox |-> SettingsGet(settings, "mapping_location", 0),
     chkTop |-> SettingsGet(settings, "process_top_layer", TRUE),
     chkBottom |-> SettingsGet(settings, "process_bottom_layer", TRUE),
     txtTopPrefix |-> SettingsGet(settings, "top_layer_prefix", "TOP-COORDS"),
     txtBottomPrefix |-> SettingsGet(settings, "bottom_layer_prefix", "BOTTOM-COORDS"),
     verbosity |-> IF stored_verbosity \in 0..3 THEN stored_verbosity ELSE 0,
     txtMappingFileName |-> ConstructedDialog.txtMappingFileName]

\* load_settings leaves the controls at the stored values merged over the
\* defaults when the file holds a JSON object, and at the defaults when
\* the file is absent, unreadable or not JSON.
SettingsMergedOrDefault ==
    [][(dialog_pc = "constructed" /\ dialog_pc' = "loaded")
          => Dialog' = MergedOverDefaults(IF settings_file.kind = "json"
                                          THEN settings_file.settings
                                          ELSE EmptyObject)]_vars

\* load_user_options returns options to its caller, it raises nothing.
OptionsReturned == [][user_options' \in {"not called", "defaults", "merged"}]_vars

\* C18: loading the options yields the stored JSON values merged over the
\* in-memory defaults (stored keys override, missing keys take the default);
\* after an I/O failure or a JSON decode failure the result is exactly the
\* defaults; no exception is raised to the caller.
C18_StoredMergedOverDefaults ==
    /\ SettingsMergedOrDefault
    /\ OptionsReturned

\* An object without mapping_location has been loaded: the defaults of the
\* missing keys were not applied.
MissingKeyLeftUnapplied ==
    /\ dialog_pc = "loaded"
    /\ settings_file.kind = "json"
    /\ settings_file.settings.mapping_location = <<>>
    /\ Dialog # MergedOverDefaults(settings_file.settings)

\* "<value> <designator>" of a footprint.
ValueAndDesignator(mod) == mod.value \o <<" ">> \o mod.ref

\* C19: the explanation column of a data row is "PRIO <value> <designator>"
\* if and only if the row's footprint is in the priority group, and it is
\* exactly "<value> <designator>" for a mapped and for an unmapped footprint.
C19_ExplanationColumn ==
    \A layer \in Layers :
        Written(layer) =>
            \A k \in 1..Len(DataRows(CsvOf(layer))) :
                LET row == DataRows(CsvOf(layer))[k]
                    mod == board[BoardIndex(row)]
                IN /\ (row[11] = <<"P", "R", "I", "O", " ">> \o ValueAndDesignator(mod))
                        <=> PrecedenceGroup(mod) = "priority"
                   /\ PrecedenceGroup(mod) \in {"mapped", "unmapped"}
                        => row[11] = ValueAndDesignator(mod)

\* The written CSVs hold the row of a priority footprint, the row of a mapped
\* footprint and the row of an unmapped footprint.
C19_Witness ==
    \A g \in {"priority", "mapped", "unmapped"} :
        \E layer \in Layers :
            /\ Written(layer)
            /\ \E k \in 1..Len(DataRows(CsvOf(layer))) :
                PrecedenceGroup(board[BoardIndex(DataRows(CsvOf(layer))[k])]) = g

\* The CSV write_qihe_file writes for a layer from a loaded mapping file.
CsvFrom(layer, loaded) ==
    FileOf(write_qihe_file(board, layer, loaded.mapping, loaded.exclude_patterns,
                           loaded.priority_patterns).rows)

\* C20: the mapping table and the pattern lists used to classify footprints
\* and fill rows are those of the most recent read of the mapping file in the
\* run, the reload in generate_qihe_files: a written CSV is the one the
\* reloaded table and lists yield, also when the file was changed after the
\* load in run.
C20_WrittenFromMostRecentRead ==
    \A layer \in Layers :
        Written(layer) => CsvOf(layer) = CsvFrom(layer, local_mapping)

\* A CSV was written from the table loaded by run although the reload had
\* read a table that yields other rows.
WrittenFromStaleTable ==
    \E layer \in Layers :
        /\ Written(layer)
        /\ local_mapping # self_mapping
        /\ CsvOf(layer) = CsvFrom(layer, self_mapping)
        /\ CsvOf(layer) # CsvFrom(layer, local_mapping)

\* The values of two footprints differ only in letter case.
DifferOnlyInCase(a, b) == a.value # b.value /\ LowerStr(a.value) = LowerStr(b.value)

\* The sort key without regard to letter case.
FoldedKey(mod) == LowerStr(FirstToken(mod.value))

\* C21: the sort key is normalised for case: two footprints whose values
\* differ only in letter case get equal sort keys, and the rows of a group
\* are ordered by component value without regard to case (footprints with
\* the same folded key keep their board order, list.sort being stable).
C21_SortKeyCaseInsensitive ==
    \A layer \in Layers :
        Written(layer) =>
            LET rows == DataRows(CsvOf(layer)) IN
            /\ \A k, m \in 1..Len(rows) :
                LET a == board[BoardIndex(rows[k])]
                    b == board[BoardIndex(rows[m])]
                IN DifferOnlyInCase(a, b) => get_sort_key(a) = get_sort_key(b)
            /\ \A k \in 1..(Len(rows) - 1) :
                LET a == board[BoardIndex(rows[k])]
                    b == board[BoardIndex(rows[k + 1])]
                IN GroupRank(a) = GroupRank(b) =>
                     /\ ~StrLess(FoldedKey(b), FoldedKey(a))
                     /\ FoldedKey(a) = FoldedKey(b) => BoardIndex(rows[k]) < BoardIndex(rows[k + 1])

\* Two rows of one group were written with the capital letter first although
\* the lower-case key is the smaller one without regard to case.
RowsOrderedByCodePoint ==
    \E layer \in Layers :
        /\ Written(layer)
        /\ \E k \in 1..(Len(DataRows(CsvOf(layer))) - 1) :
            LET rows == DataRows(CsvOf(layer))
                a == board[BoardIndex(rows[k])]
                b == board[BoardIndex(rows[k + 1])]
            IN /\ GroupRank(a) = GroupRank(b)
               /\ StrLess(FoldedKey(b), FoldedKey(a))

\* Two rows whose keys differ only in case were written in the opposite of
\* their board order.
EqualFoldedKeysReordered ==
    \E layer \in Layers :
        /\ Written(layer)
        /\ \E k \in 1..(Len(DataRows(CsvOf(layer))) - 1) :
            LET rows == DataRows(CsvOf(layer))
                a == board[BoardIndex(rows[k])]
                b == board[BoardIndex(rows[k + 1])]
            IN /\ GroupRank(a) = GroupRank(b)
               /\ FoldedKey(a) = FoldedKey(b)
               /\ BoardIndex(rows[k]) > BoardIndex(rows[k + 1])

\* The dialog is created again over a settings file.  Every settings file of
\* these runs was written by save_settings, so it holds the value each
\* control had at the time of the save.
Recreated == dialog_pc = "closed" /\ dialog_pc' = "loaded" /\ settings_file.kind = "json"

\* The saved object without the mapping file name.
AppliedKeys(settings) == [settings EXCEPT !.ComponentMapping = <<>>]

\* The mapping location, the two layer check boxes, the two prefixes and the
\* verbosity of a dialog that is created again are those of the save.
AppliedKeysRoundTrip ==
    [][Recreated => AppliedKeys(SavedSettings(Dialog')) = AppliedKeys(settings_file.settings)]_vars

\* C22: after save_settings has succeeded and the dialog is created again,
\* load_settings reading the saved file, every persisted option shown in the
\* dialog (mapping location, top and bottom check box, top and bottom prefix,
\* verbosity, and the mapping file name saved as ComponentMapping) equals its
\* value at the time of the save.
C22_SettingsRoundTrip ==
    [][Recreated => SavedSettings(Dialog') = settings_file.settings]_vars

\* A dialog created over a file that names another mapping file shows the
\* name the constructor sets.
MappingFileNameLost ==
    /\ dialog_pc = "loaded"
    /\ settings_file.kind = "json"
    /\ settings_file.settings.ComponentMapping = <<"map.txt">>
    /\ widgets.txtMappingFileName = ConstructedDialog.txtMappingFileName
    /\ AppliedKeys(SavedSettings(Dialog)) = AppliedKeys(settings_file.settings)

====
